---- MODULE Spec2Model ----
(***************************************************************************)
(* Model of the recording-and-merge pipeline of meetingreco:               *)
(* AudioRecorder (src/recorder.py), its temporary files, the capture       *)
(* subprocesses it owns and the external encode / concatenation tool.      *)
(*                                                                         *)
(* Assumptions of the environment: the encode tool (ffmpeg) can always be  *)
(* launched, so subprocess.run raises nothing but CalledProcessError;      *)
(* nobody but the recorder, its capture subprocesses and the encode tool   *)
(* touches the temporary files; the clock never runs backwards.            *)
(***************************************************************************)
EXTENDS Integers, Sequences, FiniteSets, TLC

\* ------------------------------------------------------------------ bounds
\* Last clock reading the model explores.
MaxTime == 3
\* Number of start()/resume() calls the model explores.
MaxStarts == 2
\* Clock ticks per second: time.time() is read in ticks, file names carry
\* the second only.
TicksPerSecond == 2
\* The most sources a pactl listing holds.
MaxSources == 3
\* Number of transcriptions the model explores.
MaxMeetings == 2
\* Number of start()/resume() calls explored within one clock reading.
MaxBurstStarts == 3
\* The most meetings saved before the meeting list is shown.
MaxListed == 3
\* Last minute the clock of the meeting library reaches.
MaxMinute == 2

\* --------------------------------------------------------------- constants
\* A file counts as audio only above this size (bytes).
MinSize == 1000
\* "%H-%M" of the folder name follows sixty "%S".
SecondsPerMinute == 60
\* Optional[float] = None for start_time.
NoTime == -1
\* Optional[subprocess.Popen] = None for the process handles.
NoProc == 0

\* Sizes a raw capture file or an encoded file can be observed with: at the
\* threshold and just above it.
FileSizes == {MinSize, MinSize + 1}

\* ------------------------------------------------------------------- paths
\* A path of the temporary directory: kind is the file name's prefix, ts the
\* strftime timestamp in it, n the ledger length in temp_audio_<ts>_<n>.mp3.
Path(kind, ts, n) == [kind |-> kind, ts |-> ts, n |-> n]
\* Optional[Path] = None.
NoPath == Path("none", 0, 0)
PartPath(ts, n) == Path("temp_audio", ts, n)
MonitorWav(ts) == Path("monitor", ts, 0)
MicWav(ts) == Path("mic", ts, 0)
OutputFile(ts) == Path("meeting_audio", ts, 0)
ConcatFile(ts) == Path("concat", ts, 0)

\* datetime.now().strftime("%Y%m%d_%H%M%S"): the clock cut to the second.
Timestamp(t) == t \div TicksPerSecond

\* ------------------------------------------------------------------- state
VARIABLES
    is_recording,      \* AudioRecorder.is_recording
    monitor_process,   \* handle: index into procs, or NoProc
    mic_process,       \* handle: index into procs, or NoProc
    current_file,      \* path of the cycle's encoded output, or NoPath
    recording_parts,   \* the ledger: sequence of paths
    start_time,        \* clock reading of the cycle's start, or NoTime
    total_duration,    \* ticks accumulated by closed cycles
    monitor_wav,       \* attribute set by a successful start(), else NoPath
    mic_wav,           \* attribute set by a successful start(), else NoPath
    fs,                \* the temporary directory: existing path -> size
    manifests,         \* content of the concat manifests: path -> lines
    procs,             \* the capture subprocesses that are running
    now,               \* the clock
    last,              \* what the last call did and returned
    nstarts,           \* start() calls made so far
    cycle_open_at,     \* observer: clock reading when the open cycle began
    wall_sum,          \* observer: sum of the closed cycles' durations
    wall_session,      \* observer: the same sum, of the cycles closed since
                       \* the last merge
    ever_big,          \* observer: a raw capture file was seen above MinSize
    pactl_sources,     \* the source names pactl would list
    pactl_ok,          \* whether a pactl run succeeds
    devices,           \* what get_powerconf_devices() returned last
    screen_stack,      \* App.screen_stack: the screens, the top one last
    ui_is_recording,   \* RecordingScreen.is_recording
    ui_is_paused,      \* RecordingScreen.is_paused
    status,            \* the text of RecordingScreen's #status
    info,              \* the text of RecordingScreen's #info
    update_timer_task, \* RecordingScreen.update_timer_task
    audio_file,        \* TranscriptionScreen.audio_file
    meeting_name,      \* TranscriptionScreen.meeting_name
    meeting,           \* TranscriptionScreen.meeting
    t_info,            \* the text of TranscriptionScreen's #info
    worker,            \* the transcribe_audio worker thread
    meetings,          \* MEETINGS_DIR: folder -> meeting.json and audio.mp3
    next_id,           \* the meeting ids handed out so far, plus one
    ui,                \* what the last screen handler or worker step did
    pause_at,          \* clock reading at which a pause() now inside its
                       \* encode added the cycle's time, else NoTime
    cursor_row         \* DataTable.cursor_row of the meeting list

\* The pactl listing and its last resolution.
device_vars == <<pactl_sources, pactl_ok, devices>>

\* The screens, the transcription worker and the meetings directory.
app_vars == <<screen_stack, ui_is_recording, ui_is_paused, status, info,
              update_timer_task, audio_file, meeting_name, meeting, t_info,
              worker, meetings, next_id, ui>>

\* What the recorder's calls and the recording screen leave alone.
rest_vars == <<device_vars, pause_at, cursor_row>>

vars == <<is_recording, monitor_process, mic_process, current_file,
          recording_parts, start_time, total_duration, monitor_wav, mic_wav,
          fs, manifests, procs, now, last, nstarts, cycle_open_at, wall_sum,
          wall_session, ever_big, rest_vars, app_vars>>

\* The fields of the AudioRecorder object.
recorder_vars == <<is_recording, monitor_process, mic_process, current_file,
                   recording_parts, start_time, total_duration, monitor_wav,
                   mic_wav>>

\* What a call reports: op the method, ret_ok the boolean start()/pause()
\* returned, ret_path the path stop() returned, encode the encode pause() ran
\* ("none" if it ran none) and encode_failed whether that run exited
\* non-zero, concat how the concatenation stop() ran ended ("none" if it ran
\* none, else "ok" or "failed"), spawned the number of capture subprocesses
\* launched, manifest the lines stop() wrote to the concat manifest.
NoCall(op) == [op |-> op, ret_ok |-> FALSE, ret_path |-> NoPath,
               encode |-> "none", encode_failed |-> FALSE, concat |-> "none",
               spawned |-> 0, manifest |-> <<>>]

\* The recorder, its files and its subprocesses at one instant, as one value
\* the methods transform.
State == [is_recording |-> is_recording, monitor_process |-> monitor_process,
          mic_process |-> mic_process, current_file |-> current_file,
          recording_parts |-> recording_parts, start_time |-> start_time,
          total_duration |-> total_duration, monitor_wav |-> monitor_wav,
          mic_wav |-> mic_wav, fs |-> fs, manifests |-> manifests,
          procs |-> procs, now |-> now, last |-> last]

\* ----------------------------------------------------------------- helpers
\* Path.exists()
exists(f, p) == p \in DOMAIN f
\* Path.stat().st_size of an existing file
st_size(f, p) == f[p]
\* Writing a file of the given size (created or overwritten).
write(f, p, size) == [q \in DOMAIN f \cup {p} |-> IF q = p THEN size ELSE f[q]]
\* Path.unlink(missing_ok=True)
unlink(f, p) == [q \in DOMAIN f \ {p} |-> f[q]]

\* Mutant: the parts are not deleted.
unlink_none(f, ps) == f

\* "for part in self.recording_parts: part.unlink(missing_ok=True)"
RECURSIVE unlink_all(_, _)
unlink_all(f, ps) ==
    IF ps = <<>> THEN f ELSE unlink_all(unlink(f, Head(ps)), Tail(ps))

\* Mutant: the threshold compared with >=.
usable_ge(f, p) == exists(f, p) /\ st_size(f, p) >= MinSize

\* "exists() and stat().st_size > 1000"
usable(f, p) == exists(f, p) /\ st_size(f, p) > MinSize

\* The identities of the running processes.
ids(ps) == {p.id : p \in ps}
\* The identity of a new Popen object: one that neither names a running
\* process nor is referred to by a handle (the least such number).
new_proc(ps, held) ==
    LET used == ids(ps) \cup held
    IN  CHOOSE n \in 1..(Cardinality(used) + 1) :
          /\ n \notin used
          /\ \A m \in 1..(n - 1) : m \in used
\* subprocess.Popen(["parecord", ..., str(out)]): process h now runs.
Popen(ps, h, out) == ps \cup {[id |-> h, out |-> out]}
\* process.terminate(); process.wait(): h runs no more (no effect on a
\* process that has already been waited on).
terminate(ps, h) == {p \in ps : p.id # h}

\* ---------------------------------------------------------------- devices
\* Text is a sequence of pieces. The two device ids get_powerconf_devices()
\* names, and what else pactl may list: another card, and a source whose
\* name continues the microphone's.
Mic == <<"alsa_input.usb-Anker_PowerConf_S3", ".mono-fallback">>
Monitor == <<"alsa_output.usb-Anker_PowerConf_S3", ".analog-stereo",
             ".monitor">>
OtherSource == <<"alsa_input.pci-0000_00_1f.3", ".analog-stereo">>
DerivedSource == Mic \o <<".remapped">>
SourceNames == {Mic, Monitor, OtherSource, DerivedSource}
\* None: the system default device.
NoDevice == <<>>
\* No call of get_powerconf_devices() has returned yet.
Unresolved == [mic |-> <<"unresolved">>, monitor |-> <<"unresolved">>]

\* The stdout of "pactl list sources short": one line per source, the name
\* between tabs.
RECURSIVE pactl_stdout(_)
pactl_stdout(listed) ==
    IF listed = <<>> THEN <<>>
    ELSE <<"\t">> \o Head(listed) \o <<"\t", "\n">> \o pactl_stdout(Tail(listed))

\* Python's "pat in text" on strings: pat occurs somewhere in text.
occurs_in(pat, text) ==
    \E i \in 1..(Len(text) - Len(pat) + 1) :
        SubSeq(text, i, i + Len(pat) - 1) = pat

\* Mutant: when pactl fails both devices fall back to the default.
keep_or_default_none(ok, id, text) ==
    IF ok /\ occurs_in(id, text) THEN id ELSE NoDevice

\* One device of get_powerconf_devices(): the id is dropped only inside the
\* try, when the listing was obtained and the id does not occur in it.
keep_or_default(ok, id, text) ==
    IF ok /\ ~occurs_in(id, text) THEN NoDevice ELSE id

\* get_powerconf_devices(): listed is what pactl would list, ok whether the
\* pactl run succeeded (check=True raises otherwise, and the except branch
\* only prints). The result is the pair (mic, monitor).
get_powerconf_devices(listed, ok) ==
    LET text == pactl_stdout(listed)
    IN  [mic |-> keep_or_default(ok, Mic, text),
         monitor |-> keep_or_default(ok, Monitor, text)]

\* ------------------------------------------------------------------ start
\* The body of AudioRecorder.start(). launch is what the two Popen calls do: "ok", or
\* the first raises ("monitor_raises"), or the second does ("mic_raises").
\* The devices get_powerconf_devices() resolves only choose the arguments of
\* the capture commands.
start_cycle(s, launch) ==
      LET ts   == Timestamp(s.now)
          cf   == PartPath(ts, Len(s.recording_parts))
          s1   == [s EXCEPT !.current_file = cf,
                            !.recording_parts = Append(@, cf)]
          mon  == MonitorWav(ts)
          mic  == MicWav(ts)
          call == NoCall("start")
          h1   == new_proc(s.procs, {s.monitor_process, s.mic_process})
          ps1  == Popen(s.procs, h1, mon)
          h2   == new_proc(ps1, {h1, s.mic_process})
      IN  CASE launch = "monitor_raises" ->
                 [s1 EXCEPT !.last = call]
            [] launch = "mic_raises" ->
                 [s1 EXCEPT !.procs = ps1,
                            !.monitor_process = h1,
                            !.last = [call EXCEPT !.spawned = 1]]
            [] OTHER ->
                 [s1 EXCEPT !.procs = Popen(ps1, h2, mic),
                            !.monitor_process = h1,
                            !.mic_process = h2,
                            !.is_recording = TRUE,
                            !.start_time = s.now,
                            !.monitor_wav = mon,
                            !.mic_wav = mic,
                            !.last = [call EXCEPT !.spawned = 2,
                                                  !.ret_ok = TRUE]]

\* Mutant: start() without its guard.
start_unguarded(s, launch) == start_cycle(s, launch)

\* AudioRecorder.start(): a call made while recording is turned down.
start(s, launch) ==
    IF s.is_recording
    THEN [s EXCEPT !.last = NoCall("start")]
    ELSE start_cycle(s, launch)

\* AudioRecorder.resume()
resume(s, launch) == start(s, launch)

\* ------------------------------------------------------------------ pause
\* "if self.start_time:" is false for None and for 0.0.
truthy_time(t) == t # NoTime /\ t # 0

\* Mutant: the two single-source branches exchanged.
select_encode_swapped(monitor_exists, mic_exists) ==
    IF monitor_exists /\ mic_exists THEN "mix"
    ELSE IF monitor_exists THEN "mic_only"
    ELSE IF mic_exists THEN "monitor_only"
    ELSE "abort"

\* The encode pause() picks from which raw files are usable.
select_encode(monitor_exists, mic_exists) ==
    IF monitor_exists /\ mic_exists THEN "mix"
    ELSE IF monitor_exists THEN "monitor_only"
    ELSE IF mic_exists THEN "mic_only"
    ELSE "abort"

\* subprocess.run(cmd, check=True) of the encode writing to out. enc is what
\* the tool does: enc.ok its exit status, enc.wrote whether a failing run
\* left an output file, enc.size the size of the output it wrote.
run_encode(f, out, enc) ==
    IF enc.ok \/ enc.wrote THEN write(f, out, enc.size) ELSE f

\* Mutant: "=" for "+=".
accumulate_overwrite(s) ==
    IF truthy_time(s.start_time)
    THEN s.now - s.start_time
    ELSE s.total_duration

\* "if self.start_time: self.total_duration += time.time() - self.start_time"
accumulate(s) ==
    IF truthy_time(s.start_time)
    THEN s.total_duration + (s.now - s.start_time)
    ELSE s.total_duration

\* Mutant: the capture subprocesses are left running.
terminate_none(s) == s.procs

\* Both capture subprocesses terminated and waited on.
terminate_both(s) ==
    LET p1 == IF s.monitor_process # NoProc
              THEN terminate(s.procs, s.monitor_process) ELSE s.procs
    IN  IF s.mic_process # NoProc THEN terminate(p1, s.mic_process) ELSE p1

\* Mutant: the abort leaves is_recording set.
abort_stuck(s) == [s EXCEPT !.last = NoCall("pause")]

\* The branch "No audio was captured" of pause().
abort(s) ==
    [s EXCEPT !.is_recording = FALSE, !.last = NoCall("pause")]

\* The end of pause(): the cycle is closed and the handles are dropped.
close(s, call) ==
    [s EXCEPT !.is_recording = FALSE, !.monitor_process = NoProc,
              !.mic_process = NoProc,
              !.last = [call EXCEPT !.ret_ok = TRUE]]

\* Mutant: the raw files are deleted whether or not the encode succeeded.
clean_up_always(f, s, ok) == unlink(unlink(f, s.monitor_wav), s.mic_wav)

\* "Clean up WAV files": reached only when subprocess.run did not raise.
clean_up(f, s, ok) ==
    IF ok THEN unlink(unlink(f, s.monitor_wav), s.mic_wav) ELSE f

\* The encode of pause() and what follows it: on success the raw files are
\* deleted, on failure they are left.
encode(s, kind, enc) ==
    LET f1 == run_encode(s.fs, s.current_file, enc)
        call == [NoCall("pause") EXCEPT !.encode = kind,
                                        !.encode_failed = ~enc.ok]
    IN  close([s EXCEPT !.fs = clean_up(f1, s, enc.ok)], call)

\* pause() of an open cycle up to the encode: the subprocesses are stopped
\* and the cycle's time is added, is_recording is still set.
pause_begin(s) ==
    [s EXCEPT !.procs = terminate_both(s), !.total_duration = accumulate(s)]

\* pause() of an open cycle from the look at the raw files to its return.
pause_finish(s1, enc) ==
    IF s1.monitor_wav # NoPath /\ s1.mic_wav # NoPath
    THEN
      LET monitor_exists == usable(s1.fs, s1.monitor_wav)
          mic_exists == usable(s1.fs, s1.mic_wav)
          kind == select_encode(monitor_exists, mic_exists)
      IN  IF kind = "abort" THEN abort(s1) ELSE encode(s1, kind, enc)
    ELSE close(s1, NoCall("pause"))

\* Mutant: pause() without its guard.
pause_unguarded(s, enc) == pause_finish(pause_begin(s), enc)

\* AudioRecorder.pause()
pause(s, enc) ==
    IF ~s.is_recording
    THEN [s EXCEPT !.last = NoCall("pause")]
    ELSE pause_finish(pause_begin(s), enc)

\* ------------------------------------------------------------------- stop
RECURSIVE sum_sizes(_, _)
sum_sizes(f, ps) ==
    IF ps = <<>> THEN 0 ELSE st_size(f, Head(ps)) + sum_sizes(f, Tail(ps))

\* Mutant: the filter keeps every part that exists.
valid_parts_existing(f, ps) == SelectSeq(ps, LAMBDA p : exists(f, p))

\* "[p for p in self.recording_parts if p.exists() and p.stat().st_size > 1000]"
valid_parts(f, ps) == SelectSeq(ps, LAMBDA p : usable(f, p))

\* The lines "file '<part>'" written to the manifest.
manifest_lines(f, ps) == SelectSeq(ps, LAMBDA p : exists(f, p))

\* subprocess.run(cmd, check=True) of the concatenation of the manifest's
\* files into out. cat.ok is its exit status, cat.wrote whether a failing
\* run left a partial output.
run_concat(f, lines, out, cat) ==
    IF cat.ok THEN write(f, out, sum_sizes(f, lines))
    ELSE IF cat.wrote THEN write(f, out, st_size(f, Head(lines)))
    ELSE f

\* Mutant: the last part is the fallback.
fallback_last(parts) == IF parts # <<>> THEN parts[Len(parts)] ELSE NoPath

\* "return self.recording_parts[0] if self.recording_parts else None"
fallback(parts) == IF parts # <<>> THEN parts[1] ELSE NoPath

\* The merge of stop(): the manifest is written and the concatenation run;
\* on success the parts and the manifest are deleted and the ledger and the
\* duration reset, on failure the first part is returned.
merge(s, call, cat) ==
    LET parts == s.recording_parts
        ts == Timestamp(s.now)
        output_file == OutputFile(ts)
        concat_file == ConcatFile(ts)
        lines == manifest_lines(s.fs, parts)
        m1 == write(s.manifests, concat_file, lines)
        f1 == run_concat(s.fs, lines, output_file, cat)
    IN  IF cat.ok
        THEN [s EXCEPT
                !.fs = unlink_all(f1, parts),
                !.manifests = unlink(m1, concat_file),
                !.recording_parts = <<>>,
                !.total_duration = 0,
                !.last = [call EXCEPT !.concat = "ok", !.manifest = lines,
                                      !.ret_path = output_file]]
        ELSE [s EXCEPT
                !.fs = f1,
                !.manifests = m1,
                !.last = [call EXCEPT !.concat = "failed", !.manifest = lines,
                                      !.ret_path = fallback(parts)]]

\* Mutant: a single part is merged like several.
reduce_always_merge(s, call, cat) ==
    IF s.recording_parts = <<>>
    THEN [s EXCEPT !.last = call]
    ELSE merge(s, call, cat)

\* Mutant: the single part is returned and the duration reset.
reduce_reset(s, call, cat) ==
    IF s.recording_parts = <<>>
    THEN [s EXCEPT !.last = call]
    ELSE IF Len(s.recording_parts) = 1
    THEN [s EXCEPT !.total_duration = 0,
                   !.last = [call EXCEPT !.ret_path = s.recording_parts[1]]]
    ELSE merge(s, call, cat)

\* Mutant: the single part is returned and dropped from the ledger.
reduce_forget(s, call, cat) ==
    IF s.recording_parts = <<>>
    THEN [s EXCEPT !.last = call]
    ELSE IF Len(s.recording_parts) = 1
    THEN [s EXCEPT !.recording_parts = <<>>,
                   !.last = [call EXCEPT !.ret_path = s.recording_parts[1]]]
    ELSE merge(s, call, cat)

\* What stop() returns once the ledger is filtered.
reduce(s, call, cat) ==
    IF s.recording_parts = <<>>
    THEN [s EXCEPT !.last = call]
    ELSE IF Len(s.recording_parts) = 1
    THEN [s EXCEPT !.last = [call EXCEPT !.ret_path = s.recording_parts[1]]]
    ELSE merge(s, call, cat)

\* AudioRecorder.stop()
stop(s, enc, cat) ==
    LET s1 == IF s.is_recording THEN pause(s, enc) ELSE s
        call == IF s.is_recording
                THEN [NoCall("stop") EXCEPT
                        !.encode = s1.last.encode,
                        !.encode_failed = s1.last.encode_failed]
                ELSE NoCall("stop")
    IN  IF s1.recording_parts = <<>>
        THEN [s1 EXCEPT !.last = call]
        ELSE reduce([s1 EXCEPT !.recording_parts =
                                  valid_parts(s1.fs, s1.recording_parts)],
                    call, cat)

\* ------------------------------------------------------------ session clock
\* Mutant: the open cycle's time alone.
get_duration_cycle_only(s, t) ==
    IF s.is_recording /\ truthy_time(s.start_time)
    THEN t - s.start_time
    ELSE s.total_duration

\* AudioRecorder.get_duration() read at clock t.
get_duration(s, t) ==
    IF s.is_recording /\ truthy_time(s.start_time)
    THEN s.total_duration + (t - s.start_time)
    ELSE s.total_duration

\* The sizes of the raw capture files that exist.
raw_sizes(s) ==
    (IF s.monitor_wav # NoPath /\ exists(s.fs, s.monitor_wav)
     THEN st_size(s.fs, s.monitor_wav) ELSE 0)
    + (IF s.mic_wav # NoPath /\ exists(s.fs, s.mic_wav)
       THEN st_size(s.fs, s.mic_wav) ELSE 0)

\* Mutant: the raw files are counted whether or not a cycle is open.
get_file_size_raw_always(s) ==
    sum_sizes(s.fs, manifest_lines(s.fs, s.recording_parts)) + raw_sizes(s)

\* AudioRecorder.get_file_size()
get_file_size(s) ==
    sum_sizes(s.fs, manifest_lines(s.fs, s.recording_parts))
    + (IF s.is_recording THEN raw_sizes(s) ELSE 0)

\* ------------------------------------------------------------------ inputs
Launches == {"ok", "monitor_raises", "mic_raises"}
\* What an encode run can do: succeed with an output of some size, or fail
\* leaving the output untouched or partly written.
Encodes == [ok : {TRUE}, wrote : {TRUE}, size : FileSizes]
           \cup [ok : {FALSE}, wrote : BOOLEAN, size : {MinSize + 1}]
Concats == {[ok |-> TRUE, wrote |-> TRUE], [ok |-> FALSE, wrote |-> TRUE],
            [ok |-> FALSE, wrote |-> FALSE]}
NoEncode == [ok |-> FALSE, wrote |-> FALSE, size |-> MinSize]
\* An encode can only run in a call that finds a cycle open.
EncodesNow == IF is_recording THEN Encodes ELSE {NoEncode}

\* ----------------------------------------------------------------- actions
\* The state after a call: s is what the method left, the observers follow.
Apply(s) ==
    /\ is_recording' = s.is_recording
    /\ monitor_process' = s.monitor_process
    /\ mic_process' = s.mic_process
    /\ current_file' = s.current_file
    /\ recording_parts' = s.recording_parts
    /\ start_time' = s.start_time
    /\ total_duration' = s.total_duration
    /\ monitor_wav' = s.monitor_wav
    /\ mic_wav' = s.mic_wav
    /\ fs' = s.fs
    /\ manifests' = s.manifests
    /\ procs' = s.procs
    /\ last' = s.last
    /\ UNCHANGED <<now, ever_big>>

\* The observers of a call that closes the open cycle, if one is open: the
\* cycle lasted from the clock reading of its start() to that of this call.
CloseCycle ==
    LET d == IF is_recording THEN now - cycle_open_at ELSE 0
    IN  /\ wall_sum' = wall_sum + d
        /\ wall_session' = IF last'.concat = "ok" THEN 0 ELSE wall_session + d
        /\ UNCHANGED cycle_open_at

\* A call of start() or of resume().
start_call ==
    /\ \E method \in {"start", "resume"}, launch \in Launches :
         LET s == IF method = "start" THEN start(State, launch)
                  ELSE resume(State, launch)
         IN  /\ Apply(s)
             /\ cycle_open_at' = IF s.last.ret_ok THEN now ELSE cycle_open_at
    /\ nstarts' = nstarts + 1
    /\ UNCHANGED <<wall_sum, wall_session, rest_vars, app_vars>>

Start ==
    /\ nstarts < MaxStarts
    /\ start_call

Pause ==
    /\ \E enc \in EncodesNow : Apply(pause(State, enc))
    /\ CloseCycle
    /\ UNCHANGED <<nstarts, rest_vars, app_vars>>

Stop ==
    /\ \E enc \in EncodesNow, cat \in Concats : Apply(stop(State, enc, cat))
    /\ CloseCycle
    /\ UNCHANGED <<nstarts, rest_vars, app_vars>>

\* A running capture subprocess writes its output file.
CaptureWrite ==
    /\ \E p \in procs, size \in FileSizes :
         /\ IF exists(fs, p.out) THEN st_size(fs, p.out) < size ELSE TRUE
         /\ fs' = write(fs, p.out, size)
         /\ ever_big' = (ever_big \/ size > 1000)
    /\ last' = NoCall("env")
    /\ UNCHANGED <<recorder_vars, manifests, procs, now, nstarts,
                   cycle_open_at, wall_sum, wall_session, rest_vars,
                   app_vars>>

\* The clock advances.
Tick ==
    /\ now < MaxTime
    /\ now' = now + 1
    /\ last' = NoCall("env")
    /\ UNCHANGED <<recorder_vars, fs, manifests, procs, nstarts,
                   cycle_open_at, wall_sum, wall_session, ever_big,
                   rest_vars, app_vars>>

\* ------------------------------------------------------------- meetings
\* The names a meeting is given: the default of action_save, and one typed.
MeetingNames == <<"Untitled Meeting", "standup">>
\* A Meeting: utterances says whether it has any.
Meeting(id, name, date, audio_path, mstatus, error, utterances) ==
    [id |-> id, name |-> name, date |-> date, audio_path |-> audio_path,
     status |-> mstatus, error |-> error, utterances |-> utterances]
\* TranscriptionScreen.meeting = None
NoMeeting == Meeting(0, "", 0, NoPath, "none", <<>>, FALSE)
\* What a handler reports: op its name, raised whether the
\* Transcriber.transcribe_audio call it made raised.
NoUI(op) == [op |-> op, raised |-> FALSE]

\* date.strftime("%Y-%m-%d_%H-%M"): the minute of a clock reading.
Minute(t) == Timestamp(t) \div SecondsPerMinute
\* Meeting.get_folder_path()
get_folder_path(m) == [stamp |-> Minute(m.date), name |-> m.name]
\* folder / "audio.mp3"
audio_dest(folder) ==
    Path("audio.mp3", folder.stamp,
         CHOOSE i \in DOMAIN MeetingNames : MeetingNames[i] = folder.name)

\* The files a path can name: those of the temporary directory and the
\* audio.mp3 of every meeting folder that holds one.
files(f, store) ==
    LET held == {audio_dest(d) : d \in {e \in DOMAIN store : store[e].audio}}
    IN  [p \in DOMAIN f \cup held |-> IF p \in DOMAIN f THEN f[p]
                                     ELSE MinSize + 1]

\* Meeting.save(): the folder is made if missing, meeting.json is written
\* over what was there, the audio is moved in if it exists and the folder
\* has no audio.mp3 yet: shutil.move takes it from where it was, the
\* temporary directory or another meeting's folder. The result is the
\* meeting, the meetings directory and the temporary directory after the call.
save(m, store, f) ==
    LET folder == get_folder_path(m)
        had    == folder \in DOMAIN store /\ store[folder].audio
        json   == [id |-> m.id, name |-> m.name, date |-> m.date,
                   status |-> m.status, error |-> m.error,
                   utterances |-> m.utterances,
                   audio_path |-> m.audio_path # NoPath]
        moves  == /\ m.audio_path # NoPath
                  /\ exists(files(f, store), m.audio_path)
                  /\ ~had
        entry  == [json |-> json, audio |-> had \/ moves]
    IN  [meeting  |-> IF moves THEN [m EXCEPT !.audio_path = audio_dest(folder)]
                      ELSE m,
         meetings |-> [d \in DOMAIN store \cup {folder} |->
                          IF d = folder THEN entry
                          ELSE IF moves /\ m.audio_path = audio_dest(d)
                          THEN [store[d] EXCEPT !.audio = FALSE]
                          ELSE store[d]],
         fs       |-> IF moves THEN unlink(f, m.audio_path) ELSE f]

\* ----------------------------------------------------------- transcriber
\* What the transcription service does with a request: the transcript
\* completes with or without utterances, ends in the error status with a
\* message, or the client raises (here with an empty message).
Outcomes ==
    {[kind |-> "completed", utterances |-> TRUE, detail |-> <<>>],
     [kind |-> "completed", utterances |-> FALSE, detail |-> <<>>],
     [kind |-> "error_status", utterances |-> FALSE,
      detail |-> <<"bad audio">>],
     [kind |-> "client_exception", utterances |-> FALSE, detail |-> <<>>]}

\* Mutant: the exception is raised again as it came.
reraise_bare(detail) == detail

\* raise Exception(f"Transcription failed: {str(e)}"): the message.
reraise(detail) == <<"Transcription failed: ">> \o detail

\* Transcriber.transcribe_audio(): raised says whether it raised, error is
\* then str() of the exception. The ValueError for the error status is
\* raised inside the try and so raised again by its except branch.
transcribe_audio(f, path, out) ==
    IF ~exists(f, path)
    THEN [raised |-> TRUE, utterances |-> FALSE,
          error |-> <<"Audio file not found: ", "<audio_path>">>]
    ELSE IF out.kind = "completed"
    THEN [raised |-> FALSE, utterances |-> out.utterances, error |-> <<>>]
    ELSE IF out.kind = "error_status"
    THEN [raised |-> TRUE, utterances |-> FALSE,
          error |-> reraise(<<"Transcription failed: ">> \o out.detail)]
    ELSE [raised |-> TRUE, utterances |-> FALSE, error |-> reraise(out.detail)]

\* AudioRecorder(): the fields of a new recorder.
InitRecorder ==
    /\ is_recording = FALSE
    /\ monitor_process = NoProc
    /\ mic_process = NoProc
    /\ current_file = NoPath
    /\ recording_parts = <<>>
    /\ start_time = NoTime
    /\ total_duration = 0
    /\ monitor_wav = NoPath
    /\ mic_wav = NoPath

\* An empty temporary directory, no subprocess, the clock at a positive
\* reading.
InitSystem ==
    /\ fs = <<>>
    /\ manifests = <<>>
    /\ procs = {}
    /\ now = 1
    /\ last = NoCall("init")
    /\ nstarts = 0
    /\ cycle_open_at = 1
    /\ wall_sum = 0
    /\ wall_session = 0
    /\ ever_big = FALSE

\* Both named devices are plugged in and listed; nothing resolved yet.
InitDevices ==
    /\ pactl_sources = <<Mic, Monitor>>
    /\ pactl_ok = TRUE
    /\ devices = Unresolved

\* MeetingRecorderApp.on_mount(): the meeting list is the only screen, the
\* meetings directory is empty. The fields of the screens not yet built
\* hold the values their constructors give them.
InitApp ==
    /\ screen_stack = <<"list">>
    /\ ui_is_recording = FALSE
    /\ ui_is_paused = FALSE
    /\ status = "Ready to Record"
    /\ info = ""
    /\ update_timer_task = "none"
    /\ audio_file = NoPath
    /\ meeting_name = ""
    /\ meeting = NoMeeting
    /\ t_info = <<>>
    /\ worker = "none"
    /\ meetings = <<>>
    /\ next_id = 1
    /\ ui = NoUI("init")

\* AudioRecorder.__init__(), an empty temporary directory, the clock at a
\* positive reading.
Init ==
    /\ InitRecorder /\ InitSystem /\ InitDevices /\ InitApp
    /\ pause_at = NoTime
    /\ cursor_row = 0

Next == Start \/ Pause \/ Stop \/ CaptureWrite \/ Tick

Spec == Init /\ [][Next]_vars

\* ======================================================== one clock reading
\* The recorder driven faster than the clock: the calls of Spec, one start()
\* more, all at one clock reading, so that every path carries one timestamp.
BurstStart ==
    /\ nstarts < MaxBurstStarts
    /\ start_call

NextBurst == BurstStart \/ Pause \/ Stop \/ CaptureWrite

SpecBurst == Init /\ [][NextBurst]_vars

\* ================================================= pause() seen from a poll
\* pause() is taken in two steps, as a poll running beside it sees it: first
\* the subprocesses are stopped and the cycle's time is added, then the
\* encode runs and the cycle is closed. The caller is inside pause() between
\* the two and makes no other call; the clock and the files move on.
PauseBegin ==
    /\ pause_at = NoTime
    /\ is_recording
    /\ Apply([pause_begin(State) EXCEPT !.last = NoCall("pause_begin")])
    /\ pause_at' = now
    /\ UNCHANGED <<nstarts, cycle_open_at, wall_sum, wall_session,
                   device_vars, cursor_row, app_vars>>

PauseEnd ==
    /\ pause_at # NoTime
    /\ \E enc \in Encodes : Apply(pause_finish(State, enc))
    /\ pause_at' = NoTime
    /\ wall_sum' = wall_sum + (pause_at - cycle_open_at)
    /\ wall_session' = wall_session + (pause_at - cycle_open_at)
    /\ UNCHANGED <<nstarts, cycle_open_at, device_vars, cursor_row, app_vars>>

\* The caller's other calls, made while it is not inside pause().
PollStart == pause_at = NoTime /\ Start
PollStop == pause_at = NoTime /\ Stop

NextPoll ==
    PollStart \/ PauseBegin \/ PauseEnd \/ PollStop \/ CaptureWrite \/ Tick

SpecPoll == Init /\ [][NextPoll]_vars

\* ============================================================ the screens
\* App.screen_stack[-1]
Top == screen_stack[Len(screen_stack)]
\* The variables of the transcription screen and its worker.
transcription_vars == <<audio_file, meeting_name, meeting, t_info, worker>>
\* The observers of the recorder's cycles.
cycle_vars == <<cycle_open_at, wall_sum, wall_session>>

\* Mutant: action_save goes on whatever stop() returned.
proceeds_always(path) == TRUE

\* "if audio_file:" in action_save: a Path is truthy, None is not.
proceeds(path) == path # NoPath

\* "if self.update_timer_task: self.update_timer_task.cancel()"
cancel(task) == IF task = "none" THEN "none" ELSE "cancelled"

\* MeetingListScreen.action_new_recording(): a RecordingScreen with a new
\* AudioRecorder is pushed.
NewRecording ==
    /\ Top = "list"
    /\ screen_stack' = Append(screen_stack, "recording")
    /\ is_recording' = FALSE
    /\ monitor_process' = NoProc
    /\ mic_process' = NoProc
    /\ current_file' = NoPath
    /\ recording_parts' = <<>>
    /\ start_time' = NoTime
    /\ total_duration' = 0
    /\ monitor_wav' = NoPath
    /\ mic_wav' = NoPath
    /\ ui_is_recording' = FALSE
    /\ ui_is_paused' = FALSE
    /\ status' = "Ready to Record"
    /\ info' = ""
    /\ update_timer_task' = "none"
    /\ last' = NoCall("init")
    /\ cycle_open_at' = now
    /\ wall_sum' = 0
    /\ wall_session' = 0
    /\ ui' = NoUI("new_recording")
    /\ UNCHANGED <<fs, manifests, procs, now, nstarts, ever_big, rest_vars,
                   transcription_vars, meetings, next_id>>

\* The body of RecordingScreen.action_save(): stop(), and if it returned a
\* path the timer task is cancelled and a TranscriptionScreen is pushed,
\* whose on_mount starts the worker.
save_body ==
    \E enc \in EncodesNow, cat \in Concats :
      LET s == stop(State, enc, cat)
      IN  /\ Apply(s)
          /\ CloseCycle
          /\ IF proceeds(s.last.ret_path)
             THEN /\ update_timer_task' = cancel(update_timer_task)
                  /\ screen_stack' = Append(screen_stack, "transcription")
                  /\ audio_file' = s.last.ret_path
                  /\ \E i \in DOMAIN MeetingNames :
                        meeting_name' = MeetingNames[i]
                  /\ meeting' = NoMeeting
                  /\ t_info' = <<>>
                  /\ worker' = "running"
             ELSE UNCHANGED <<update_timer_task, screen_stack,
                              transcription_vars>>
          /\ UNCHANGED <<nstarts, ui_is_recording, ui_is_paused, status, info,
                         meetings, next_id, rest_vars>>

\* RecordingScreen.action_toggle_recording()
ToggleRecording ==
    /\ Top = "recording"
    /\ ui' = NoUI("toggle_recording")
    /\ IF ~ui_is_recording
       THEN /\ nstarts < MaxStarts
            /\ \E launch \in Launches :
                 LET s == start(State, launch)
                 IN  /\ Apply(s)
                     /\ cycle_open_at' = IF s.last.ret_ok THEN now
                                         ELSE cycle_open_at
                     /\ ui_is_recording' = s.last.ret_ok
                     /\ status' = IF s.last.ret_ok THEN "Recording..."
                                  ELSE status
                     /\ update_timer_task' = IF s.last.ret_ok THEN "running"
                                             ELSE update_timer_task
            /\ nstarts' = nstarts + 1
            /\ UNCHANGED <<wall_sum, wall_session, ui_is_paused, info,
                           screen_stack, transcription_vars, meetings,
                           next_id, rest_vars>>
       ELSE save_body

\* RecordingScreen.action_pause_resume(). The handler looks the pause button
\* up first, which is mounted once a recording has started.
PauseResume ==
    /\ Top = "recording"
    /\ ui_is_recording
    /\ ui' = NoUI("pause_resume")
    /\ IF ~ui_is_paused
       THEN /\ \E enc \in EncodesNow : Apply(pause(State, enc))
            /\ CloseCycle
            /\ ui_is_paused' = TRUE
            /\ status' = "Paused"
            /\ UNCHANGED nstarts
       ELSE /\ nstarts < MaxStarts
            /\ \E launch \in Launches :
                 LET s == resume(State, launch)
                 IN  /\ Apply(s)
                     /\ cycle_open_at' = IF s.last.ret_ok THEN now
                                         ELSE cycle_open_at
            /\ nstarts' = nstarts + 1
            /\ ui_is_paused' = FALSE
            /\ status' = "Recording..."
            /\ UNCHANGED <<wall_sum, wall_session>>
    /\ UNCHANGED <<ui_is_recording, info, update_timer_task, screen_stack,
                   transcription_vars, meetings, next_id, rest_vars>>

\* RecordingScreen.action_save()
Save ==
    /\ Top = "recording"
    /\ ui' = NoUI("save")
    /\ save_body

\* RecordingScreen.action_discard()
Discard ==
    /\ Top = "recording"
    /\ ui' = NoUI("discard")
    /\ \E enc \in EncodesNow, cat \in Concats : Apply(stop(State, enc, cat))
    /\ CloseCycle
    /\ update_timer_task' = cancel(update_timer_task)
    /\ screen_stack' = SubSeq(screen_stack, 1, Len(screen_stack) - 1)
    /\ UNCHANGED <<nstarts, ui_is_recording, ui_is_paused, status, info,
                   transcription_vars, meetings, next_id, rest_vars>>

\* RecordingScreen.action_back()
Back ==
    /\ Top = "recording"
    /\ ui' = NoUI("back")
    /\ IF ui_is_recording
       THEN /\ \E enc \in EncodesNow, cat \in Concats :
                 Apply(stop(State, enc, cat))
            /\ CloseCycle
       ELSE /\ last' = NoCall("env")
            /\ UNCHANGED <<recorder_vars, fs, manifests, procs, now, ever_big,
                           cycle_vars>>
    /\ screen_stack' = SubSeq(screen_stack, 1, Len(screen_stack) - 1)
    /\ UNCHANGED <<nstarts, ui_is_recording, ui_is_paused, status, info,
                   update_timer_task, transcription_vars, meetings, next_id,
                   rest_vars>>

\* One round of RecordingScreen.update_timer(): the sizes the model's files
\* have all print as 0.0 MB.
UpdateTimer ==
    /\ update_timer_task = "running"
    /\ \E i \in DOMAIN screen_stack : screen_stack[i] = "recording"
    /\ ui_is_recording \/ ui_is_paused
    /\ get_duration(State, now) >= 0 /\ get_file_size(State) >= 0
    /\ info' = "File size: 0.0 MB"
    /\ ui' = NoUI("update_timer")
    /\ last' = NoCall("env")
    /\ UNCHANGED <<recorder_vars, fs, manifests, procs, now, nstarts,
                   ever_big, cycle_vars, rest_vars, screen_stack,
                   ui_is_recording, ui_is_paused, status, update_timer_task,
                   transcription_vars, meetings, next_id>>

\* TranscriptionScreen.complete_transcription(): the stack after it.
complete_transcription(stack, m) ==
    IF m # NoMeeting /\ m.utterances
    THEN Append(SubSeq(stack, 1, Len(stack) - 1), "speakers")
    ELSE SubSeq(stack, 1, Len(stack) - 1)

\* The except branch of the worker: the message is shown, and as no meeting
\* was built an error meeting is built and saved.
worker_except(m, r, id, name, path, t) ==
    IF m = NoMeeting
    THEN Meeting(id, name, t, path, "error", r.error, FALSE)
    ELSE m

\* TranscriptionScreen.transcribe_audio(), the worker thread, from the call
\* of the transcriber to its end.
worker_call ==
    /\ worker = "running"
    /\ \E out \in Outcomes :
         LET r  == transcribe_audio(files(fs, meetings), audio_file, out)
             m  == IF r.raised
                   THEN worker_except(meeting, r, next_id, meeting_name,
                                      audio_file, now)
                   ELSE Meeting(next_id, meeting_name, now, audio_file,
                                "transcribed", <<>>, r.utterances)
             sv == save(m, meetings, fs)
         IN  /\ meeting' = sv.meeting
             /\ meetings' = sv.meetings
             /\ fs' = sv.fs
             /\ t_info' = IF r.raised THEN <<"Error: ">> \o r.error
                          ELSE <<"Processing transcription...">>
             /\ screen_stack' = IF r.raised THEN screen_stack
                                ELSE complete_transcription(screen_stack,
                                                            sv.meeting)
             /\ ui' = [NoUI("worker") EXCEPT !.raised = r.raised]
    /\ worker' = "ended"
    /\ next_id' = next_id + 1
    /\ last' = NoCall("env")
    /\ UNCHANGED <<recorder_vars, manifests, procs, now, nstarts, ever_big,
                   cycle_vars, rest_vars, ui_is_recording, ui_is_paused,
                   status, info, update_timer_task, audio_file, meeting_name>>

Worker ==
    /\ next_id <= MaxMeetings
    /\ worker_call

\* The audio file is deleted from the temporary directory while the worker
\* has not yet looked for it.
AudioVanishes ==
    /\ worker = "running"
    /\ exists(fs, audio_file)
    /\ fs' = unlink(fs, audio_file)
    /\ last' = NoCall("env")
    /\ ui' = NoUI("env")
    /\ UNCHANGED <<recorder_vars, manifests, procs, now, nstarts, ever_big,
                   cycle_vars, rest_vars, screen_stack, ui_is_recording,
                   ui_is_paused, status, info, update_timer_task,
                   transcription_vars, meetings, next_id>>

\* SpeakerAssignmentScreen.action_save(): the meeting is saved again, and
\* the screens above the meeting list are popped.
SpeakerSave ==
    /\ Top = "speakers"
    /\ LET sv == save(meeting, meetings, fs)
       IN  /\ meeting' = sv.meeting
           /\ meetings' = sv.meetings
           /\ fs' = sv.fs
    /\ screen_stack' = <<"list">>
    /\ ui' = NoUI("speaker_save")
    /\ last' = NoCall("env")
    /\ UNCHANGED <<recorder_vars, manifests, procs, now, nstarts, ever_big,
                   cycle_vars, rest_vars, ui_is_recording, ui_is_paused,
                   status, info, update_timer_task, audio_file, meeting_name,
                   t_info, worker, next_id>>

NextApp ==
    \/ NewRecording \/ ToggleRecording \/ PauseResume \/ Save \/ Discard
    \/ Back \/ UpdateTimer \/ Worker \/ AudioVanishes \/ SpeakerSave
    \/ CaptureWrite

SpecApp == Init /\ [][NextApp]_vars

\* The screens with the scheduling the runtime gives: the worker is a thread
\* (@work(thread=True)) started by on_mount, so once started it runs to its
\* end. Nothing obliges the user to press a key.
SpecAppLive == SpecApp /\ WF_vars(Worker)

\* ====================================================== device resolution
\* What pactl can list: up to MaxSources source names.
Listings == UNION {[1..n -> SourceNames] : n \in 0..MaxSources}

\* Any listing, pactl working or not, and nothing resolved yet.
InitResolver ==
    /\ InitRecorder /\ InitSystem /\ InitApp
    /\ pause_at = NoTime
    /\ cursor_row = 0
    /\ pactl_sources \in Listings
    /\ pactl_ok \in BOOLEAN
    /\ devices = Unresolved

\* A call of get_powerconf_devices(), as start() makes it.
Resolve ==
    /\ devices' = get_powerconf_devices(pactl_sources, pactl_ok)
    /\ UNCHANGED <<is_recording, monitor_process, mic_process, current_file,
                   recording_parts, start_time, total_duration, monitor_wav,
                   mic_wav, fs, manifests, procs, now, last, nstarts,
                   cycle_open_at, wall_sum, wall_session, ever_big,
                   pactl_sources, pactl_ok, pause_at, cursor_row, app_vars>>

NextDevices == Resolve

SpecDevices == InitResolver /\ [][NextDevices]_vars

\* ======================================================== the meeting list
\* The dates the listed meetings were made at: two clock readings of one
\* minute and one of the next.
ListDates == {1, 2, TicksPerSecond * SecondsPerMinute + 1}
\* The name and date of every meeting saved, in the order of saving.
Saves ==
    UNION {[1..n -> [name : {MeetingNames[i] : i \in DOMAIN MeetingNames},
                     date : ListDates]] : n \in 0..MaxListed}

RECURSIVE saved(_)
\* The meetings directory after the worker saved the meetings of ms in
\* turn, each under an id of its own.
saved(ms) ==
    IF Len(ms) = 0 THEN <<>>
    ELSE LET n == Len(ms)
             m == Meeting(n, ms[n].name, ms[n].date, NoPath, "transcribed",
                          <<>>, FALSE)
         IN  save(m, saved(SubSeq(ms, 1, n - 1)), <<>>).meetings

\* The place of a name in the order of str: "Untitled_Meeting" sorts before
\* "standup".
NameIndex(name) == CHOOSE i \in DOMAIN MeetingNames : MeetingNames[i] = name
\* The order of the folder names "<stamp>_<name>" as sorted() compares them.
folder_before(a, b) ==
    \/ a.stamp < b.stamp
    \/ a.stamp = b.stamp /\ NameIndex(a.name) < NameIndex(b.name)
RECURSIVE descending(_)
\* The folders of a set, the last in the order first.
descending(folders) ==
    IF folders = {} THEN <<>>
    ELSE LET top == CHOOSE a \in folders :
                        \A b \in folders \ {a} : folder_before(b, a)
         IN  <<top>> \o descending(folders \ {top})
\* sorted(MEETINGS_DIR.iterdir(), reverse=True)
sorted_reverse(store) == descending(DOMAIN store)
\* Meeting.load_from_folder()
load_from_folder(store, folder) ==
    LET j == store[folder].json
    IN  Meeting(j.id, j.name, j.date,
                IF j.audio_path /\ store[folder].audio THEN audio_dest(folder)
                ELSE NoPath,
                j.status, j.error, j.utterances)
\* MeetingManager.list_meetings()
list_meetings(store) ==
    LET folders == sorted_reverse(store)
    IN  [i \in DOMAIN folders |-> load_from_folder(store, folders[i])]

\* The first of the places hits of a list, as a for loop with break finds it.
first(hits) == CHOOSE i \in hits : \A j \in hits : i <= j
\* meeting.date.strftime("%Y-%m-%d %H:%M"): the text of the Date cell.
date_cell(m) == Minute(m.date)
\* The Date cell of the row "No meetings".
NoMeetingsCell == -1
\* MeetingListScreen.refresh_meetings(): the rows of the table, each with
\* its Date and Name cells and its key.
refresh_meetings(store) ==
    LET ms == list_meetings(store)
    IN  IF DOMAIN ms = {}
        THEN <<[date |-> NoMeetingsCell, name |-> "", key |-> 0]>>
        ELSE [i \in DOMAIN ms |->
                [date |-> date_cell(ms[i]), name |-> ms[i].name,
                 key |-> ms[i].id]]

\* MeetingManager.get_meeting()
get_meeting(store, id) ==
    LET ms   == list_meetings(store)
        hits == {i \in DOMAIN ms : ms[i].id = id}
    IN  IF hits = {} THEN NoMeeting ELSE ms[first(hits)]
\* MeetingManager.delete_meeting(): the meetings directory after it.
delete_meeting(store, id) ==
    LET m      == get_meeting(store, id)
        folder == get_folder_path(m)
    IN  IF m # NoMeeting /\ folder \in DOMAIN store
        THEN [d \in DOMAIN store \ {folder} |-> store[d]]
        ELSE store

\* The places in list_meetings() of the meetings action_delete's loop
\* matches against the Date cell of the row under the cursor.
matches(store, row) ==
    LET row_key == refresh_meetings(store)[row + 1].date
        ms      == list_meetings(store)
    IN  IF row_key = NoMeetingsCell THEN {}
        ELSE {i \in DOMAIN ms : date_cell(ms[i]) = row_key}
\* MeetingListScreen.action_delete(): the meetings directory after it.
action_delete(store, row) ==
    LET hits == matches(store, row)
    IN  IF hits = {} THEN store
        ELSE delete_meeting(store, list_meetings(store)[first(hits)].id)

\* The meeting list is the only screen; the meetings directory holds what
\* earlier transcriptions saved; the cursor is on the first row.
InitList ==
    /\ InitRecorder /\ InitSystem /\ InitDevices
    /\ screen_stack = <<"list">>
    /\ ui_is_recording = FALSE
    /\ ui_is_paused = FALSE
    /\ status = "Ready to Record"
    /\ info = ""
    /\ update_timer_task = "none"
    /\ audio_file = NoPath
    /\ meeting_name = ""
    /\ meeting = NoMeeting
    /\ t_info = <<>>
    /\ worker = "none"
    /\ \E ms \in Saves : meetings = saved(ms) /\ next_id = Len(ms) + 1
    /\ ui = NoUI("init")
    /\ pause_at = NoTime
    /\ cursor_row = 0

\* What the handlers of the meeting list leave alone.
list_rest == <<recorder_vars, fs, manifests, procs, now, nstarts, ever_big,
               cycle_vars, device_vars, pause_at, screen_stack,
               ui_is_recording, ui_is_paused, status, info, update_timer_task,
               transcription_vars, next_id>>

\* The user moves the table's cursor to another row.
MoveCursor ==
    /\ Top = "list"
    /\ \E row \in 0..(Len(refresh_meetings(meetings)) - 1) :
         /\ row # cursor_row
         /\ cursor_row' = row
    /\ ui' = NoUI("cursor")
    /\ last' = NoCall("env")
    /\ UNCHANGED <<meetings, list_rest>>

\* MeetingListScreen.action_delete(); the refresh after a match clears the
\* table, which puts the cursor back on the first row.
Delete ==
    /\ Top = "list"
    /\ meetings' = action_delete(meetings, cursor_row)
    /\ cursor_row' = IF matches(meetings, cursor_row) = {} THEN cursor_row
                     ELSE 0
    /\ ui' = NoUI("delete")
    /\ last' = NoCall("env")
    /\ UNCHANGED list_rest

NextList == MoveCursor \/ Delete

SpecList == InitList /\ [][NextList]_vars

\* ======================================================= the meeting library
RECURSIVE recorded(_)
\* The meetings directory and the temporary directory after the worker
\* saved the meetings of ms in turn, each with a recording of its own that
\* stop() had returned.
recorded(ms) ==
    IF Len(ms) = 0 THEN [meetings |-> <<>>, fs |-> <<>>]
    ELSE LET n      == Len(ms)
             before == recorded(SubSeq(ms, 1, n - 1))
             audio  == OutputFile(n)
             m      == Meeting(n, ms[n].name, ms[n].date, audio,
                               "transcribed", <<>>, FALSE)
             sv     == save(m, before.meetings,
                            write(before.fs, audio, MinSize + 1))
         IN  [meetings |-> sv.meetings, fs |-> sv.fs]

\* The meeting list is the only screen; the meetings directory holds the
\* meetings recorded so far, the temporary directory what their saves left;
\* the clock is at the latest of their dates.
InitLibrary ==
    /\ InitRecorder /\ InitDevices
    /\ \E ms \in Saves :
         /\ meetings = recorded(ms).meetings
         /\ fs = recorded(ms).fs
         /\ next_id = Len(ms) + 1
    /\ now = TicksPerSecond * SecondsPerMinute + 1
    /\ manifests = <<>>
    /\ procs = {}
    /\ last = NoCall("init")
    /\ nstarts = 0
    /\ cycle_open_at = now
    /\ wall_sum = 0
    /\ wall_session = 0
    /\ ever_big = FALSE
    /\ screen_stack = <<"list">>
    /\ ui_is_recording = FALSE
    /\ ui_is_paused = FALSE
    /\ status = "Ready to Record"
    /\ info = ""
    /\ update_timer_task = "none"
    /\ audio_file = NoPath
    /\ meeting_name = ""
    /\ meeting = NoMeeting
    /\ t_info = <<>>
    /\ worker = "none"
    /\ ui = NoUI("init")
    /\ pause_at = NoTime
    /\ cursor_row = 0

\* The places in list_meetings() of the meetings action_reprocess's loop
\* accepts: the date matches the row under the cursor and there is audio.
reprocessable(store, row) ==
    {i \in matches(store, row) : list_meetings(store)[i].audio_path # NoPath}

\* MeetingListScreen.action_reprocess(): a TranscriptionScreen is pushed for
\* the audio and the name of the first such meeting; its on_mount starts the
\* worker.
Reprocess ==
    /\ Top = "list"
    /\ LET hits == reprocessable(meetings, cursor_row)
       IN  IF hits = {}
           THEN UNCHANGED <<screen_stack, transcription_vars>>
           ELSE LET m == list_meetings(meetings)[first(hits)]
                IN  /\ screen_stack' = Append(screen_stack, "transcription")
                    /\ audio_file' = m.audio_path
                    /\ meeting_name' = m.name
                    /\ meeting' = NoMeeting
                    /\ t_info' = <<>>
                    /\ worker' = "running"
    /\ ui' = NoUI("reprocess")
    /\ last' = NoCall("env")
    /\ UNCHANGED <<recorder_vars, fs, manifests, procs, now, nstarts,
                   ever_big, cycle_vars, rest_vars, ui_is_recording,
                   ui_is_paused, status, info, update_timer_task, meetings,
                   next_id>>

\* The worker of a reprocessing, after the meetings recorded before.
LibraryWorker ==
    /\ next_id <= MaxListed + MaxMeetings
    /\ worker_call

\* The clock reaches the next minute.
Later ==
    /\ Minute(now) < MaxMinute
    /\ now' = now + TicksPerSecond * SecondsPerMinute
    /\ last' = NoCall("env")
    /\ UNCHANGED <<recorder_vars, fs, manifests, procs, nstarts,
                   cycle_open_at, wall_sum, wall_session, ever_big,
                   rest_vars, app_vars>>

NextLibrary ==
    MoveCursor \/ Reprocess \/ LibraryWorker \/ SpeakerSave \/ Later

SpecLibrary == InitLibrary /\ [][NextLibrary]_vars

\* ================================================================== claims
\* The last call was a stop() whose concatenation succeeded.
Merged == last.op = "stop" /\ last.concat = "ok"
\* The last call ran pause() on an open cycle and took its abort branch:
\* the cycle is closed and the handles of its terminated processes remain.
Aborted ==
    /\ last.op \in {"pause", "stop"}
    /\ ~is_recording
    /\ last.encode = "none"
    /\ monitor_process # NoProc /\ monitor_process \notin ids(procs)
    /\ mic_process # NoProc /\ mic_process \notin ids(procs)
\* A raw capture file as the claims describe a usable one: it exists and is
\* larger than 1000 bytes.
RawUsable(p) == p \in DOMAIN fs /\ fs[p] > 1000
\* A step that is a call of pause() finding a cycle open.
PauseOfOpenCycle == is_recording /\ last'.op = "pause"

\* C1 as stated: after stop() has returned, get_duration() is the sum of the
\* wall-clock durations of all the cycles, whichever branch stop() took.
C1_DurationIsSumOfCycles ==
    last.op = "stop" => get_duration(State, now) = wall_sum

\* C1 amended: after stop() has returned, get_duration() is the sum of the
\* wall-clock durations of the cycles closed since the last successful merge
\* (all of them if stop() never merged), and 0 when this stop() merged.
C1_DurationAfterStop ==
    last.op = "stop" =>
        get_duration(State, now) = IF Merged THEN 0 ELSE wall_session

\* Two recorded cycles that lasted two ticks together, then a stop() that
\* did not merge them.
C1_Witness ==
    /\ last.op = "stop" /\ last.concat = "failed"
    /\ Len(recording_parts) = 2
    /\ wall_session = 2

\* C2: start() (and resume()) called while recording returns False, leaves
\* every field of the recorder unchanged and spawns no subprocess.
C2_StartWhileRecordingRejected ==
    [][(is_recording /\ last'.op = "start") =>
          /\ ~last'.ret_ok
          /\ last'.spawned = 0
          /\ UNCHANGED <<recorder_vars, procs, fs, manifests>>]_vars

\* A start() that was turned down because a cycle is open.
C2_Witness == is_recording /\ last.op = "start" /\ ~last.ret_ok

\* C3 as stated: in every reachable state every path of the ledger names an
\* existing file larger than 1000 bytes.
C3_LedgerAlwaysValid ==
    \A i \in DOMAIN recording_parts : RawUsable(recording_parts[i])

\* C3 amended: when stop() has returned, every path of the ledger names an
\* existing file larger than 1000 bytes; before that the ledger also holds
\* the paths start() reserved, whose files may not exist.
C3_LedgerValidAfterStop ==
    last.op = "stop" =>
        \A i \in DOMAIN recording_parts : RawUsable(recording_parts[i])

\* stop() has returned and left two segments in the ledger.
C3_Witness == last.op = "stop" /\ Len(recording_parts) = 2

\* C4: after every completed call the two capture handles are both set or
\* both None, and they are set only while recording.
C4_HandlesPairedAndOwned ==
    /\ (monitor_process = NoProc) <=> (mic_process = NoProc)
    /\ (monitor_process # NoProc \/ mic_process # NoProc) => is_recording

\* C5 as stated: total_duration never decreases.
C5_DurationNeverDecreases ==
    [][total_duration' >= total_duration]_vars

\* C5 amended: total_duration never decreases, except that a stop() whose
\* concatenation succeeded resets it to 0.
C5_DurationDecreasesOnlyOnMerge ==
    [][\/ total_duration' >= total_duration
       \/ (Merged' /\ total_duration' = 0)]_vars

\* Two cycles have been closed and total_duration has grown to two ticks.
C5_Witness ==
    last.op = "pause" /\ last.ret_ok /\ total_duration = 2 /\ nstarts = 2

\* C6: pause() picks its encode from the pair (monitor usable, mic usable)
\* alone: (T,T) the mix, (T,F) monitor only, (F,T) mic only, (F,F) no encode;
\* so does the pause() that stop() runs on an open cycle.
C6_EncodeFromUsability ==
    [][(is_recording /\ last'.op \in {"pause", "stop"}) =>
          last'.encode =
             IF RawUsable(monitor_wav) /\ RawUsable(mic_wav) THEN "mix"
             ELSE IF RawUsable(monitor_wav) THEN "monitor_only"
             ELSE IF RawUsable(mic_wav) THEN "mic_only"
             ELSE "none"]_vars

\* A pause() that encoded the microphone alone, in a second cycle.
C6_Witness ==
    last.op = "pause" /\ last.encode = "mic_only" /\ nstarts = 2

\* C7: if both raw files are unusable at pause(), pause() returns False, the
\* ledger keeps its length and is_recording is false afterwards.
C7_NoUsableAudioAborts ==
    [][(PauseOfOpenCycle /\ ~RawUsable(monitor_wav) /\ ~RawUsable(mic_wav)) =>
          /\ ~last'.ret_ok
          /\ Len(recording_parts') = Len(recording_parts)
          /\ ~is_recording']_vars

\* A pause() that aborted a cycle whose raw files were at the threshold.
C7_Witness ==
    /\ last.op = "pause" /\ Aborted /\ ~last.ret_ok
    /\ monitor_wav \in DOMAIN fs /\ fs[monitor_wav] = 1000

\* C8: if exactly one valid segment remains in stop(), no concatenation is
\* run, that segment's path is returned and its file still exists.
C8_SingleSegmentReturned ==
    (last.op = "stop" /\ Len(recording_parts) = 1) =>
        /\ last.concat = "none"
        /\ last.ret_path = recording_parts[1]
        /\ last.ret_path \in DOMAIN fs

\* stop() closed the open cycle and returned its segment, the only valid one
\* of two reserved.
C8_Witness ==
    /\ last.op = "stop" /\ last.encode # "none"
    /\ Len(recording_parts) = 1 /\ nstarts = 2
    /\ last.ret_path # NoPath

\* C9: if two or more valid segments remain and the concatenation succeeds,
\* stop() returns a path that differs from every segment's, every segment
\* file is deleted, the ledger is empty and total_duration is 0.
C9_MergeCleansUp ==
    Merged =>
        /\ last.ret_path # NoPath
        /\ \A i \in DOMAIN last.manifest :
              /\ last.manifest[i] # last.ret_path
              /\ last.manifest[i] \notin DOMAIN fs
        /\ recording_parts = <<>>
        /\ total_duration = 0

\* A stop() that merged two segments.
C9_Witness == Merged /\ Len(last.manifest) = 2

\* C10: if no raw capture file ever exceeded 1000 bytes, no encode and no
\* concatenation is ever run, no encoded file exists, and stop() returns
\* None.
C10_NoAudioNoArtifact ==
    ~ever_big =>
        /\ last.encode = "none"
        /\ last.concat = "none"
        /\ \A p \in DOMAIN fs : p.kind \notin {"temp_audio", "meeting_audio"}
        /\ last.op = "stop" => last.ret_path = NoPath

\* A session of two cycles whose raw files stayed at 1000 bytes, stopped
\* with the second cycle open.
C10_Witness ==
    /\ ~ever_big /\ last.op = "stop" /\ Aborted /\ nstarts = 2
    /\ Len(recording_parts) = 0
    /\ mic_wav \in DOMAIN fs /\ fs[mic_wav] = 1000

\* The first path of a ledger whose file exists and is larger than 1000
\* bytes in the directory f (NoPath if there is none).
RECURSIVE FirstValid(_, _)
FirstValid(ps, f) ==
    IF ps = <<>> THEN NoPath
    ELSE IF Head(ps) \in DOMAIN f /\ f[Head(ps)] > 1000 THEN Head(ps)
    ELSE FirstValid(Tail(ps), f)

\* C11: if two or more valid segments remain and the concatenation fails,
\* stop() returns the chronologically first valid segment: the first path,
\* in the order start() reserved them, whose file passes the filter.
C11_ConcatFailureReturnsFirst ==
    [][(last'.op = "stop" /\ last'.concat = "failed") =>
          /\ last'.ret_path # NoPath
          /\ last'.ret_path = FirstValid(recording_parts, fs')]_vars

\* A stop() whose concatenation failed although the open cycle's encode had
\* succeeded; it returned the first of the two segments.
C11_Witness ==
    /\ last.op = "stop" /\ last.concat = "failed"
    /\ last.encode # "none" /\ ~last.encode_failed
    /\ Len(last.manifest) = 2 /\ last.ret_path = last.manifest[1]
    /\ last.manifest[1] # last.manifest[2]

\* C12: whenever stop() runs the concatenation, the cycle that was open at
\* the call is finalized: its two capture subprocesses run no more,
\* is_recording is false, and the encode its raw files called for has run.
\* (The merge touches neither the processes nor is_recording, so what holds
\* when stop() returns held when the concatenation started.)
C12_FinalizedBeforeConcat ==
    [][(last'.op = "stop" /\ last'.concat # "none") =>
          /\ ~is_recording'
          /\ is_recording =>
               /\ monitor_process \notin ids(procs')
               /\ mic_process \notin ids(procs')
               /\ (RawUsable(monitor_wav) \/ RawUsable(mic_wav)) =>
                     last'.encode # "none"]_vars

\* A stop() that found a cycle open, mixed it and then merged.
C12_Witness ==
    /\ last.op = "stop" /\ last.concat = "ok" /\ last.encode = "mix"
    /\ procs = {}

\* C13: if a capture launch raises inside start(), start() returns False,
\* is_recording stays false, the ledger holds no path of the failed cycle and
\* no handle refers to a process of that cycle.
C13_FailedStartLeavesNothing ==
    (last.op = "start" /\ ~last.ret_ok /\ ~is_recording) =>
        /\ \A i \in DOMAIN recording_parts : recording_parts[i] # current_file
        /\ monitor_process \notin ids(procs)
        /\ mic_process \notin ids(procs)

\* C14: if the encode exits non-zero inside pause(), the raw capture files
\* are left as they were, is_recording is false and both handles are None,
\* so that a following start() is accepted.
C14_EncodeFailureClosesCycle ==
    [][(last'.op = "pause" /\ last'.encode_failed) =>
          /\ \A w \in {monitor_wav, mic_wav} :
                w \in DOMAIN fs => (w \in DOMAIN fs' /\ fs'[w] = fs[w])
          /\ ~is_recording'
          /\ monitor_process' = NoProc /\ mic_process' = NoProc
          /\ start(State, "ok")'.last.ret_ok]_vars

\* A pause() whose mix failed: both raw files are still there.
C14_Witness ==
    /\ last.op = "pause" /\ last.encode = "mix" /\ last.encode_failed
    /\ monitor_wav \in DOMAIN fs /\ mic_wav \in DOMAIN fs

\* C15: get_duration() is total_duration + (now - start_time) while a cycle
\* is open and total_duration otherwise; it is never negative and, within one
\* open cycle, never decreases from one clock reading to a later one.
C15_DurationReading ==
    /\ [](/\ get_duration(State, now) =
               IF is_recording THEN total_duration + (now - start_time)
               ELSE total_duration
          /\ get_duration(State, now) >= 0)
    /\ [][(is_recording /\ is_recording' /\ cycle_open_at' = cycle_open_at) =>
             get_duration(State, now)' >= get_duration(State, now)]_vars

\* A second cycle is open for a tick after a first one that lasted a tick.
C15_Witness ==
    is_recording /\ total_duration = 1 /\ now - start_time = 1

\* The size of a file, 0 if it does not exist.
SizeOrZero(p) == IF p \in DOMAIN fs THEN fs[p] ELSE 0

\* The bytes of the first i entries of the ledger.
RECURSIVE LedgerBytes(_)
LedgerBytes(i) ==
    IF i = 0 THEN 0 ELSE SizeOrZero(recording_parts[i]) + LedgerBytes(i - 1)

\* C16: get_file_size() is the sum of the sizes of the ledger paths that
\* exist, plus the sizes of the two raw capture files exactly while a cycle
\* is open; a path that does not exist counts 0.
C16_FileSize ==
    get_file_size(State) =
        LedgerBytes(Len(recording_parts))
        + (IF is_recording
           THEN SizeOrZero(monitor_wav) + SizeOrZero(mic_wav) ELSE 0)

\* A second cycle is open: the first segment exists, the reserved one does
\* not, one raw file has been written.
C16_Witness ==
    /\ is_recording /\ Len(recording_parts) = 2
    /\ recording_parts[1] \in DOMAIN fs
    /\ recording_parts[2] \notin DOMAIN fs
    /\ monitor_wav \in DOMAIN fs /\ mic_wav \notin DOMAIN fs

\* The id is one of the names pactl listed.
Listed(id) == \E i \in DOMAIN pactl_sources : pactl_sources[i] = id

\* C17: get_powerconf_devices() returns, for the microphone and for the
\* monitor independently, the device id only if the id is in the source list
\* obtained from pactl; if the id is not listed or the list could not be
\* obtained it returns None.
C17_DeviceOnlyIfListed ==
    devices # Unresolved =>
        /\ devices.mic = IF pactl_ok /\ Listed(Mic) THEN Mic ELSE NoDevice
        /\ devices.monitor = IF pactl_ok /\ Listed(Monitor) THEN Monitor
                             ELSE NoDevice

\* C18: the recording screen pushes a TranscriptionScreen only with a path
\* stop() returned in that very handler, and a stop() that returned None is
\* followed by no push and no transcription request.
C18_TranscribesOnlyReturnedPath ==
    [][/\ (Top' = "transcription" /\ Len(screen_stack') > Len(screen_stack))
            => /\ last'.op = "stop" /\ last'.ret_path # NoPath
               /\ audio_file' = last'.ret_path
               /\ worker' = "running"
       /\ (last'.op = "stop" /\ last'.ret_path = NoPath)
            => /\ Len(screen_stack') <= Len(screen_stack)
               /\ Top' # "transcription"
               /\ UNCHANGED <<worker, audio_file>>]_vars

\* A save on a screen that had started recording, whose stop() returned
\* None: the recording screen is still on top and no worker was started.
C18_Witness ==
    /\ ui.op = "save" /\ last.op = "stop" /\ last.ret_path = NoPath
    /\ ui_is_recording /\ Top = "recording" /\ worker = "none"

\* C19: a save whose stop() returned None changes the status or the info
\* text of the recording screen.
C19_NoArtifactIsSurfaced ==
    [][(ui'.op = "save" /\ last'.op = "stop" /\ last'.ret_path = NoPath)
          => (status' # status \/ info' # info)]_vars

\* C20: when Transcriber.transcribe_audio raises, the worker ends normally
\* and by then a Meeting with status "error" and a non-empty error message
\* is held by the screen and written to the meetings directory.
C20_WorkerSavesErrorMeeting ==
    [][(worker = "running" /\ worker' # "running" /\ ui'.raised) =>
          /\ worker' = "ended"
          /\ meeting'.status = "error" /\ meeting'.error # <<>>
          /\ \E d \in DOMAIN meetings' :
                /\ meetings'[d].json.id = meeting'.id
                /\ meetings'[d].json.status = "error"
                /\ meetings'[d].json.error # <<>>]_vars

\* The worker ended after the transcriber raised for a missing audio file.
C20_Witness ==
    /\ ui.op = "worker" /\ ui.raised /\ worker = "ended"
    /\ meeting.status = "error"
    /\ meeting.error[1] = "Audio file not found: "

\* C21: no capture subprocess spawned by start() is still running after
\* stop() has returned, also when a launch failed.
C21_NoProcessAfterStop == last.op = "stop" => procs = {}

\* C23: after every completed operation start_time is None whenever
\* is_recording is false.
C23_StartTimeOnlyWhileOpen == ~is_recording => start_time = NoTime

\* The segment files other than the one the open cycle encodes into.
SettledSegments ==
    {p \in DOMAIN fs : p.kind = "temp_audio" /\ ~(is_recording /\ p = current_file)}

\* C25: on the single-segment path and on the concatenation-failure path of
\* stop() no segment file is deleted, recording_parts holds exactly the valid
\* segments in order, and total_duration is what the finalize of the open
\* cycle made it; segment files go and total_duration is reset only when the
\* concatenation succeeded.
C25_OnlyMergeCleansUp ==
    [][(last'.op = "stop" /\ last'.ret_path # NoPath /\ last'.concat # "ok") =>
          /\ \A p \in SettledSegments : p \in DOMAIN fs' /\ fs'[p] = fs[p]
          /\ recording_parts' =
                SelectSeq(recording_parts,
                          LAMBDA p : p \in DOMAIN fs' /\ fs'[p] > 1000)
          /\ recording_parts' # <<>>
          /\ total_duration' =
                total_duration + (IF is_recording THEN now - start_time ELSE 0)]_vars

\* A stop() whose concatenation failed: both segments are on disk and in
\* the ledger, the duration of the two cycles is kept.
C25_Witness ==
    /\ last.op = "stop" /\ last.concat = "failed"
    /\ Len(recording_parts) = 2
    /\ \A i \in 1..2 : recording_parts[i] \in DOMAIN fs
    /\ total_duration = 2

\* C26: pause() called while no cycle is open returns False and changes
\* neither the recorder nor the files nor the subprocesses.
C26_PauseWithoutCycleIsNoOp ==
    [][(last'.op = "pause" /\ ~is_recording) =>
          /\ ~last'.ret_ok
          /\ UNCHANGED <<recorder_vars, fs, manifests, procs>>]_vars

\* A pause() turned down after a cycle was closed by an earlier pause(): the
\* handles are None (an abort would have left them) and the duration of the
\* closed cycle is counted.
C26_Witness ==
    /\ last.op = "pause" /\ ~last.ret_ok /\ ~is_recording
    /\ monitor_process = NoProc /\ mic_process = NoProc
    /\ total_duration > 0 /\ start_time # NoTime

\* C27: a stop() that closes the open cycle in any way but a failed encode
\* (successful encode, or abort) leaves neither raw capture file of that
\* cycle on disk.
C27_RawFilesOnlyAfterFailedEncode ==
    [][(last'.op = "stop" /\ is_recording /\ ~last'.encode_failed) =>
          /\ monitor_wav \notin DOMAIN fs'
          /\ mic_wav \notin DOMAIN fs']_vars

\* C24: the manifest stop() writes lists segment files only, each of them
\* once, in the order of the cycles that produced them.
C24_ManifestListsEachSegmentOnce ==
    (last.op = "stop" /\ last.concat # "none") =>
        /\ \A i \in DOMAIN last.manifest : last.manifest[i].kind = "temp_audio"
        /\ \A i, j \in DOMAIN last.manifest :
              i < j => /\ last.manifest[i] # last.manifest[j]
                       /\ last.manifest[i].ts <= last.manifest[j].ts

\* C22: in every state in which is_recording is true, total_duration holds
\* the closed cycles only, and get_duration() is their sum plus the open
\* cycle's elapsed time, counted once.
C22_OpenCycleCountedOnce ==
    is_recording =>
        /\ total_duration = wall_session
        /\ get_duration(State, now) = wall_session + (now - cycle_open_at)

\* C28: whenever the recording screen is in its recording state (is_recording
\* true, is_paused false, the status shown as recording), the recorder's
\* is_recording is true.
C28_ScreenAgreesWithRecorder ==
    (/\ Top = "recording"
     /\ ui_is_recording /\ ~ui_is_paused
     /\ status = "Recording...") => is_recording

\* C29: once the worker has finished, whether transcription succeeded or
\* raised, the transcription screen is eventually popped.
C29_TranscriptionScreenLeft ==
    (worker = "ended") ~> (Top # "transcription")

\* C30: a delete removes exactly the folder of the meeting shown in the row
\* under the cursor, and leaves every other meeting's folder as it was.
C30_DeleteRemovesRowUnderCursor ==
    [][(ui'.op = "delete" /\ DOMAIN meetings # {}) =>
          meetings' =
            [d \in DOMAIN meetings \ {sorted_reverse(meetings)[cursor_row + 1]}
               |-> meetings[d]]]_vars

\* C31: no step takes the audio away from a saved meeting: every meeting
\* folder that held an audio.mp3 before the step holds one after it.
C31_SavedAudioStays ==
    [][\A d \in DOMAIN meetings :
          meetings[d].audio =>
              d \in DOMAIN meetings' /\ meetings'[d].audio]_vars

====
